---- MODULE Spec2Model ----
(***************************************************************************)
(* The round/game state machine of the knowsy party game: the operations   *)
(* of useGameActions (src/unnamed/part_000) run by independent clients     *)
(* against the tables, uniqueness constraints and row-level-security       *)
(* policies of the migration                                               *)
(* (src/supabase/migrations/20251029061733_...sql).                        *)
(* Two pieces of client state are modelled with them: hasSubmitted of the  *)
(* PlayerGuessing screen and currentRound of useGameState                  *)
(* (src/unnamed/part_001).                                                 *)
(*                                                                         *)
(* Every database statement is one atomic step.  An operation that issues  *)
(* more than one statement is a call in flight (an element of calls): its  *)
(* first statement runs in the step that starts it, each later statement   *)
(* in a step of its own, so that statements of different clients           *)
(* interleave at every await of the source.                                *)
(*                                                                         *)
(* A policy is modelled by its own USING / WITH CHECK expression: a SELECT *)
(* or UPDATE silently skips the rows the policy hides (no error), an       *)
(* INSERT of a row failing WITH CHECK or a uniqueness constraint is        *)
(* rejected as a whole.                                                    *)
(***************************************************************************)
EXTENDS Integers, Sequences, FiniteSets, Bags, TLC

(***************************************************************************)
(* Bounds of the model.                                                    *)
(***************************************************************************)
NUsers == 2         \* users 1..NUsers, all of them players of the game
NItems == 2         \* items of the round's topic
MaxRounds == 1      \* round numbers 1..MaxRounds
MaxCalls == 2       \* Spec, SpecRound: multi-statement calls in flight at once
MaxScoreRuns == 2   \* Spec, SpecRound: calculateScores runs per round
MaxGuessCalls == 2  \* Spec: submitGuess calls in a behaviour
ScoringGuessCalls == 3  \* SpecScoring: submitGuess calls in a behaviour
GameGuessCalls == 1     \* SpecGame: submitGuess calls in a behaviour
MaxJoinCalls == 3       \* SpecJoin: joinGame calls in flight at once
NCodes == 2             \* SpecCreate: the join codes createGame can generate
MaxTopicRounds == 2     \* SpecTopics: round numbers selectTopic is called with
PlayGuessCalls == 2     \* SpecPlay: submitGuess calls in a behaviour
MaxListLen == 2         \* SpecRotate: length of the players lists given to rotateVIP

(***************************************************************************)
(* Program constants.                                                      *)
(***************************************************************************)
points_per_correct == 100
bonus_all_correct == 200
penalty_all_wrong == -50
DefaultTargetScore == 1000
target_score == 300     \* settings.target_score given to createGame

\* The target scores SpecGame configures games with: target_score and 0.
TargetScores == {0, target_score}

Users == 1..NUsers
NoVIP == 0                  \* current_vip_id NULL
Creator == 1
RoundNumbers == 1..MaxRounds
TopicItems == 1..NItems
OtherItem == NItems + 1     \* a topic_items row of another topic
totalItems == NItems        \* the item count callers pass to revealNext

RoundStatuses ==
    <<"topic_selection", "vip_ranking", "player_guessing", "revealing", "complete">>

StatusRank(s) == CHOOSE i \in 1..Len(RoundStatuses) : RoundStatuses[i] = s

VARIABLES
    game,           \* the games row: status, current_vip_id, target_score
    game_players,   \* the game_players rows in joined_at order: user_id, score
    rounds,         \* round_number -> the rounds row: vip_id, status, reveal_index
    rankings,       \* the rankings rows: round_id, item_id, position
    guesses,        \* the guesses rows: round_id, user_id, item_id, position, is_correct
    calls,          \* bag of the calls in flight, each with its locals
    guessCalls,     \* history: submitGuess calls started
    scoreRuns,      \* history: round -> calculateScores runs started
    applied,        \* history: <<round, user>> -> score writes that took effect
    games,          \* the games rows createGame calls inserted: code, creator_id,
                    \* current_vip_id, status, target_score
    games_players,  \* the game_players rows of those games: code, user_id, score
    hasSubmitted,   \* user -> hasSubmitted of that user's PlayerGuessing screen
    currentRound,   \* currentRound of one client's useGameState: no row or one
    notified        \* the rounds whose change notifications that client has handled

vars == <<game, game_players, rounds, rankings, guesses, calls, guessCalls, scoreRuns, applied,
          games, games_players, hasSubmitted, currentRound, notified>>

(***************************************************************************)
(* Submissions: the { itemId, position }[] arguments of submitVIPRanking   *)
(* and submitGuess, as sets of rows.  The functions accept any list; the   *)
(* model draws from every permutation of the topic's items and one         *)
(* submission of each malformed kind.                                      *)
(***************************************************************************)
Rows(f) == {[item_id |-> i, position |-> f[i]] : i \in DOMAIN f}

Permutations0 ==
    {f \in [TopicItems -> 0..(NItems - 1)] :
        \A i, j \in TopicItems : i # j => f[i] # f[j]}

IdentityRanking == [i \in TopicItems |-> i - 1]

OmitsLastItem == Rows([i \in TopicItems \ {NItems} |-> i - 1])

RepeatsPosition == Rows([i \in TopicItems |-> IF i = NItems THEN 0 ELSE i - 1])

OutsideItem == {[item_id |-> OtherItem, position |-> NItems]}

FullSubmissions == {Rows(f) : f \in Permutations0}

Submissions ==
    FullSubmissions \cup ({OmitsLastItem, RepeatsPosition, OutsideItem} \ {{}})

GuessSubmissions ==
    FullSubmissions \cup ({OmitsLastItem, OutsideItem} \ {{}})

(***************************************************************************)
(* Tables, constraints and policies.                                       *)
(***************************************************************************)
IsPlayer(u) == \E i \in 1..Len(game_players) : game_players[i].user_id = u

PlayerIndex(u) == CHOOSE i \in 1..Len(game_players) : game_players[i].user_id = u

ScoreOf(u) == game_players[PlayerIndex(u)].score

RoundRankings(r) == {k \in rankings : k.round_id = r}

RoundGuesses(r) == {g \in guesses : g.round_id = r}

\* UNIQUE(round_id, item_id) and UNIQUE(round_id, position) on rankings: the
\* new rows (a list, one row per element of the submission) clash neither with
\* one another nor with a stored row.  A new row equal to a stored one clashes.
RankingsUnique(sub, rows) ==
    /\ \A a, b \in sub :
          a # b => (a.item_id # b.item_id /\ a.position # b.position)
    /\ \A a \in rows, b \in rankings :
          a.round_id = b.round_id
              => (a.item_id # b.item_id /\ a.position # b.position)

\* UNIQUE(round_id, user_id, item_id) and UNIQUE(round_id, user_id, position)
\* on guesses, likewise.
GuessesUnique(rows) ==
    /\ \A a, b \in rows :
          (a # b /\ a.round_id = b.round_id /\ a.user_id = b.user_id)
              => (a.item_id # b.item_id /\ a.position # b.position)
    /\ \A a \in rows, b \in guesses :
          (a.round_id = b.round_id /\ a.user_id = b.user_id)
              => (a.item_id # b.item_id /\ a.position # b.position)

\* mutant of CanUpdateGame: every player of the game may update it
CanUpdateGameAnyPlayer(actor) == IsPlayer(actor)

\* policy "Creator can update game"
CanUpdateGame(actor) == actor = Creator

\* mutant of CanUpdateRound: every player of the game may update the round
CanUpdateRoundAnyPlayer(actor, r) == IsPlayer(actor)

\* policy "VIP can update rounds"
CanUpdateRound(actor, r) == rounds[r].vip_id = actor

\* policy "VIP can create rounds"
CanCreateRound(actor, vipId) == actor = vipId

\* policy "VIP can create rankings"
CanCreateRankings(actor, r) == r \in DOMAIN rounds /\ rounds[r].vip_id = actor

\* mutant of CanViewRankings: the rankings readable in every status
CanViewRankingsAnyStatus(actor, r) == IsPlayer(actor)

\* policy "Players can view rankings after reveal"
CanViewRankings(actor, r) ==
    IsPlayer(actor) /\ rounds[r].status \in {"revealing", "complete"}

VisibleRankings(actor, r) ==
    IF CanViewRankings(actor, r) THEN RoundRankings(r) ELSE {}

\* policy "Players can create guesses"
CanCreateGuess(actor, row) == actor = row.user_id

\* policies "Players can view own guesses", "Players can view all guesses during reveal"
VisibleGuesses(actor, r) ==
    {g \in RoundGuesses(r) :
        \/ g.user_id = actor
        \/ IsPlayer(actor) /\ rounds[r].status \in {"revealing", "complete"}}

\* policy "Players can update own record"
CanUpdatePlayer(actor, u) == actor = u

\* policy "Players can view rounds"
CanViewRound(actor, r) == IsPlayer(actor)

\* fetchCurrentRound's query: the rounds row with the greatest round_number, or
\* no row (maybeSingle), as the set of the rows returned
LatestRound ==
    IF DOMAIN rounds = {} THEN {}
    ELSE LET n == CHOOSE m \in DOMAIN rounds : \A k \in DOMAIN rounds : k <= m
         IN  {[round_number |-> n, vip_id |-> rounds[n].vip_id,
               status |-> rounds[n].status,
               reveal_index |-> rounds[n].reveal_index]}

(***************************************************************************)
(* Calls in flight.                                                        *)
(***************************************************************************)
NumCalls == BagCardinality(calls)

Begin(c) == calls (+) SetToBag({c})

End(c) == calls (-) SetToBag({c})

Step(c, d) == (calls (-) SetToBag({c})) (+) SetToBag({d})

InFlight == BagToSet(calls)

\* The bounds a specification puts on its clients: calls in flight, submitGuess
\* calls made, calculateScores runs of a round.
CallsBelow(n) == NumCalls < n

GuessCallsBelow(n) == guessCalls < n

ScoreRunsBelow(r, n) == r \in RoundNumbers /\ scoreRuns[r] < n

Idle == calls = EmptyBag

(***************************************************************************)
(* The state after createGame by Creator and joinGame by the other users.  *)
(***************************************************************************)
Init ==
    /\ game = [status |-> "waiting", current_vip_id |-> Creator,
               target_score |-> target_score]
    /\ game_players = [i \in 1..NUsers |-> [user_id |-> i, score |-> 0]]
    /\ rounds = <<>>
    /\ rankings = {}
    /\ guesses = {}
    /\ calls = EmptyBag
    /\ guessCalls = 0
    /\ scoreRuns = [r \in RoundNumbers |-> 0]
    /\ applied = [p \in RoundNumbers \X Users |-> 0]
    /\ games = {}
    /\ games_players = {}
    /\ hasSubmitted = [u \in Users |-> FALSE]
    /\ currentRound = LatestRound
    /\ notified = rounds

(***************************************************************************)
(* startRound: one UPDATE of the games row; the result is not examined.    *)
(***************************************************************************)
StartRound(actor) ==
    /\ game' = IF CanUpdateGame(actor)
               THEN [game EXCEPT !.status = "playing"]
               ELSE game
    /\ UNCHANGED <<game_players, rounds, rankings, guesses, calls, guessCalls, scoreRuns, applied>>
    /\ UNCHANGED <<games, games_players>>
    /\ UNCHANGED <<hasSubmitted, currentRound, notified>>

(***************************************************************************)
(* selectTopic: one INSERT of a rounds row with status vip_ranking.        *)
(* UNIQUE(game_id, round_number) rejects a used round number.              *)
(***************************************************************************)
SelectTopic(actor, vipId, roundNumber) ==
    /\ rounds' = IF CanCreateRound(actor, vipId) /\ roundNumber \notin DOMAIN rounds
                 THEN [r \in DOMAIN rounds \cup {roundNumber} |->
                          IF r = roundNumber
                          THEN [vip_id |-> vipId, status |-> "vip_ranking",
                                reveal_index |-> 0]
                          ELSE rounds[r]]
                 ELSE rounds
    /\ UNCHANGED <<game, game_players, rankings, guesses, calls, guessCalls, scoreRuns, applied>>
    /\ UNCHANGED <<games, games_players>>
    /\ UNCHANGED <<hasSubmitted, currentRound, notified>>

(***************************************************************************)
(* submitVIPRanking: INSERT the ranking rows (one statement, all rows or   *)
(* none), then UPDATE the round to player_guessing.  A rejected INSERT     *)
(* ends the call.                                                          *)
(***************************************************************************)
RankingRows(r, sub) ==
    {[round_id |-> r, item_id |-> x.item_id, position |-> x.position] : x \in sub}

RankingInsertAccepted(actor, r, sub) ==
    /\ CanCreateRankings(actor, r)
    /\ RankingsUnique(sub, RankingRows(r, sub))

SubmitVIPRanking(actor, r, sub) ==
    /\ r \in DOMAIN rounds
    /\ IF RankingInsertAccepted(actor, r, sub)
       THEN /\ rankings' = rankings \cup RankingRows(r, sub)
            /\ calls' = Begin([op |-> "submitVIPRanking", pc |-> "update",
                               actor |-> actor, round |-> r])
       ELSE UNCHANGED <<rankings, calls>>
    /\ UNCHANGED <<game, game_players, rounds, guesses, guessCalls, scoreRuns, applied>>
    /\ UNCHANGED <<games, games_players>>
    /\ UNCHANGED <<hasSubmitted, currentRound, notified>>

SubmitVIPRankingUpdate(c) ==
    /\ c.op = "submitVIPRanking" /\ c.pc = "update"
    /\ rounds' = IF CanUpdateRound(c.actor, c.round)
                 THEN [rounds EXCEPT ![c.round].status = "player_guessing"]
                 ELSE rounds
    /\ calls' = End(c)
    /\ UNCHANGED <<game, game_players, rankings, guesses, guessCalls, scoreRuns, applied>>
    /\ UNCHANGED <<games, games_players>>
    /\ UNCHANGED <<hasSubmitted, currentRound, notified>>

(***************************************************************************)
(* submitGuess: SELECT the round's rankings (the rows the policy shows     *)
(* the caller; an empty result is not an error), compute is_correct per    *)
(* guess, then INSERT the guess rows (one statement).                      *)
(***************************************************************************)
IsCorrect(visible, g) ==
    LET found == {k \in visible : k.item_id = g.item_id}
    IN  found # {} /\ (CHOOSE k \in found : TRUE).position = g.position

GuessesWithCorrectness(visible, r, userId, sub) ==
    {[round_id |-> r, user_id |-> userId, item_id |-> g.item_id,
      position |-> g.position, is_correct |-> IsCorrect(visible, g)] : g \in sub}

SubmitGuess(actor, r, userId, sub) ==
    /\ r \in DOMAIN rounds
    /\ guessCalls' = guessCalls + 1
    /\ calls' = Begin([op |-> "submitGuess", pc |-> "insert", actor |-> actor,
                       round |-> r,
                       rows |-> GuessesWithCorrectness(VisibleRankings(actor, r),
                                                       r, userId, sub)])
    /\ UNCHANGED <<game, game_players, rounds, rankings, guesses, scoreRuns, applied>>
    /\ UNCHANGED <<games, games_players>>
    /\ UNCHANGED <<hasSubmitted, currentRound, notified>>

GuessInsertAccepted(actor, rows) ==
    /\ \A g \in rows : CanCreateGuess(actor, g)
    /\ GuessesUnique(rows)

SubmitGuessInsert(c) ==
    /\ c.op = "submitGuess" /\ c.pc = "insert"
    /\ guesses' = IF GuessInsertAccepted(c.actor, c.rows)
                  THEN guesses \cup c.rows
                  ELSE guesses
    /\ calls' = End(c)
    /\ UNCHANGED <<game, game_players, rounds, rankings, guessCalls, scoreRuns, applied>>
    /\ UNCHANGED <<games, games_players>>
    /\ UNCHANGED <<hasSubmitted, currentRound, notified>>

(***************************************************************************)
(* startReveal: one UPDATE of the round to revealing, reveal_index 1.      *)
(***************************************************************************)
\* mutant of StartReveal: the reveal starts with no item visible
StartRevealAtZero(actor, r) ==
    /\ r \in DOMAIN rounds
    /\ rounds' = IF CanUpdateRound(actor, r)
                 THEN [rounds EXCEPT ![r].status = "revealing",
                                     ![r].reveal_index = 0]
                 ELSE rounds
    /\ UNCHANGED <<game, game_players, rankings, guesses, calls, guessCalls, scoreRuns, applied>>
    /\ UNCHANGED <<games, games_players>>
    /\ UNCHANGED <<hasSubmitted, currentRound, notified>>

StartReveal(actor, r) ==
    /\ r \in DOMAIN rounds
    /\ rounds' = IF CanUpdateRound(actor, r)
                 THEN [rounds EXCEPT ![r].status = "revealing",
                                     ![r].reveal_index = 1]
                 ELSE rounds
    /\ UNCHANGED <<game, game_players, rankings, guesses, calls, guessCalls, scoreRuns, applied>>
    /\ UNCHANGED <<games, games_players>>
    /\ UNCHANGED <<hasSubmitted, currentRound, notified>>

(***************************************************************************)
(* calculateScores, lines 324-348: the per-player score changes computed   *)
(* from the guess rows the caller read.                                    *)
(***************************************************************************)
RECURSIVE Accumulate(_, _)
Accumulate(gs, scoreUpdates) ==
    IF gs = {} THEN scoreUpdates
    ELSE LET guess == CHOOSE g \in gs : TRUE
             u == guess.user_id
             cleared == IF u \in DOMAIN scoreUpdates /\ scoreUpdates[u] # 0
                        THEN scoreUpdates
                        ELSE [v \in DOMAIN scoreUpdates \cup {u} |->
                                 IF v = u THEN 0 ELSE scoreUpdates[v]]
             added == IF guess.is_correct
                      THEN [cleared EXCEPT ![u] = @ + points_per_correct]
                      ELSE cleared
         IN  Accumulate(gs \ {guess}, added)

\* mutant of BonusOrPenalty: the penalty for every player who is not all correct
BonusOrPenaltyNotAllCorrect(userGuesses) ==
    IF \A g \in userGuesses : g.is_correct
    THEN bonus_all_correct
    ELSE penalty_all_wrong

BonusOrPenalty(userGuesses) ==
    LET allCorrect == \A g \in userGuesses : g.is_correct
        allWrong == \A g \in userGuesses : ~g.is_correct
    IN  IF allCorrect THEN bonus_all_correct
        ELSE IF allWrong THEN penalty_all_wrong
        ELSE 0

\* mutant of ScoreUpdates: a player without a guess row gets the penalty
ScoreUpdatesEveryPlayer(gs) ==
    LET base == Accumulate(gs, <<>>)
    IN  [u \in Users |->
            IF u \in DOMAIN base
            THEN base[u] + BonusOrPenalty({g \in gs : g.user_id = u})
            ELSE penalty_all_wrong]

ScoreUpdates(gs) ==
    LET base == Accumulate(gs, <<>>)
    IN  [u \in DOMAIN base |->
            base[u] + BonusOrPenalty({g \in gs : g.user_id = u})]

(***************************************************************************)
(* revealNext.  With nextIndex <= totalItems: one UPDATE of reveal_index.  *)
(* Otherwise: UPDATE the round to complete, then calculateScores; no       *)
(* result is examined.                                                     *)
(***************************************************************************)
\* revealNext returns true after either branch: no result of an await is
\* examined and calculateScores catches its own errors (line 285).
RevealNextResult == TRUE

\* mutant of RevealNextAdvance: the reveal index skips an item
RevealNextAdvanceByTwo(actor, r, currentIndex) ==
    /\ r \in DOMAIN rounds
    /\ currentIndex + 1 <= totalItems
    /\ rounds' = IF CanUpdateRound(actor, r)
                 THEN [rounds EXCEPT ![r].reveal_index = currentIndex + 2]
                 ELSE rounds
    /\ UNCHANGED <<game, game_players, rankings, guesses, calls, guessCalls, scoreRuns, applied>>
    /\ UNCHANGED <<games, games_players>>
    /\ UNCHANGED <<hasSubmitted, currentRound, notified>>

RevealNextAdvance(actor, r, currentIndex) ==
    /\ r \in DOMAIN rounds
    /\ currentIndex + 1 <= totalItems
    /\ rounds' = IF CanUpdateRound(actor, r)
                 THEN [rounds EXCEPT ![r].reveal_index = currentIndex + 1]
                 ELSE rounds
    /\ UNCHANGED <<game, game_players, rankings, guesses, calls, guessCalls, scoreRuns, applied>>
    /\ UNCHANGED <<games, games_players>>
    /\ UNCHANGED <<hasSubmitted, currentRound, notified>>

RevealNextComplete(actor, r, currentIndex) ==
    /\ r \in DOMAIN rounds
    /\ currentIndex + 1 > totalItems
    /\ rounds' = IF CanUpdateRound(actor, r)
                 THEN [rounds EXCEPT ![r].status = "complete"]
                 ELSE rounds
    /\ calls' = Begin([op |-> "revealNext", pc |-> "calculateScores",
                       actor |-> actor, round |-> r])
    /\ scoreRuns' = [scoreRuns EXCEPT ![r] = @ + 1]
    /\ UNCHANGED <<game, game_players, rankings, guesses, guessCalls, applied>>
    /\ UNCHANGED <<games, games_players>>
    /\ UNCHANGED <<hasSubmitted, currentRound, notified>>

(***************************************************************************)
(* calculateScores, lines 299-348: read the round, the game's scoring      *)
(* configuration and the guesses; compute scoreUpdates.  A caller who      *)
(* cannot see the round throws, which ends the call.                       *)
(***************************************************************************)
CalculateScoresRead(c) ==
    /\ c.op = "revealNext" /\ c.pc = "calculateScores"
    /\ IF CanViewRound(c.actor, c.round)
       THEN LET read == VisibleGuesses(c.actor, c.round)
                updates == ScoreUpdates(read)
            IN  calls' = Step(c, [op |-> "revealNext",
                                  pc |-> IF DOMAIN updates = {} THEN "check"
                                         ELSE "select",
                                  actor |-> c.actor, round |-> c.round,
                                  guesses |-> read,
                                  scoreUpdates |-> updates,
                                  pending |-> DOMAIN updates])
       ELSE calls' = End(c)
    /\ UNCHANGED <<game, game_players, rounds, rankings, guesses, guessCalls, scoreRuns, applied>>
    /\ UNCHANGED <<games, games_players>>
    /\ UNCHANGED <<hasSubmitted, currentRound, notified>>

(***************************************************************************)
(* calculateScores, lines 351-357: SELECT the score of the next player of  *)
(* scoreUpdates (the order of its keys is the order of the rows read,      *)
(* which the query leaves unspecified).                                    *)
(***************************************************************************)
CalculateScoresSelect(c, userId) ==
    /\ c.op = "revealNext" /\ c.pc = "select"
    /\ userId \in c.pending
    /\ calls' = Step(c, [op |-> "revealNext", pc |-> "update",
                         actor |-> c.actor, round |-> c.round,
                         guesses |-> c.guesses,
                         scoreUpdates |-> c.scoreUpdates,
                         pending |-> c.pending \ {userId},
                         userId |-> userId,
                         player |-> IF IsPlayer(userId) /\ IsPlayer(c.actor)
                                    THEN {ScoreOf(userId)} ELSE {}])
    /\ UNCHANGED <<game, game_players, rounds, rankings, guesses, guessCalls, scoreRuns, applied>>
    /\ UNCHANGED <<games, games_players>>
    /\ UNCHANGED <<hasSubmitted, currentRound, notified>>

(***************************************************************************)
(* calculateScores, lines 359-365: UPDATE the player's score to the score  *)
(* read plus the score change.                                             *)
(***************************************************************************)
NewScore(score, scoreChange) == score + scoreChange

CalculateScoresUpdate(c) ==
    /\ c.op = "revealNext" /\ c.pc = "update"
    /\ LET effective == c.player # {} /\ CanUpdatePlayer(c.actor, c.userId)
       IN  /\ game_players' =
                 IF effective
                 THEN [game_players EXCEPT ![PlayerIndex(c.userId)].score =
                          NewScore(CHOOSE x \in c.player : TRUE,
                                   c.scoreUpdates[c.userId])]
                 ELSE game_players
           /\ applied' =
                 IF effective
                 THEN [applied EXCEPT ![<<c.round, c.userId>>] = @ + 1]
                 ELSE applied
    /\ calls' = Step(c, [op |-> "revealNext",
                         pc |-> IF c.pending = {} THEN "check" ELSE "select",
                         actor |-> c.actor, round |-> c.round,
                         guesses |-> c.guesses,
                         scoreUpdates |-> c.scoreUpdates,
                         pending |-> c.pending])
    /\ UNCHANGED <<game, rounds, rankings, guesses, guessCalls, scoreRuns>>
    /\ UNCHANGED <<games, games_players>>
    /\ UNCHANGED <<hasSubmitted, currentRound, notified>>

(***************************************************************************)
(* calculateScores, lines 368-386: read the players' scores and the        *)
(* target score; UPDATE the game to finished when a score reaches it.      *)
(***************************************************************************)
TargetScore ==
    IF game.target_score # 0 THEN game.target_score ELSE DefaultTargetScore

SomeScoreReaches(targetScore) ==
    \E i \in 1..Len(game_players) : game_players[i].score >= targetScore

CalculateScoresCheck(c) ==
    /\ c.op = "revealNext" /\ c.pc = "check"
    /\ game' = IF /\ IsPlayer(c.actor)
                  /\ SomeScoreReaches(TargetScore)
                  /\ CanUpdateGame(c.actor)
               THEN [game EXCEPT !.status = "finished"]
               ELSE game
    /\ calls' = End(c)
    /\ UNCHANGED <<game_players, rounds, rankings, guesses, guessCalls, scoreRuns, applied>>
    /\ UNCHANGED <<games, games_players>>
    /\ UNCHANGED <<hasSubmitted, currentRound, notified>>

(***************************************************************************)
(* rotateVIP (passVIP is the same call): SELECT the game's current_vip_id,  *)
(* find the player after it in the players argument, wrapping around, then *)
(* UPDATE the game.  The caller's players are those of fetchPlayers: the    *)
(* game_players rows the caller can see, ordered by joined_at.  A caller    *)
(* who cannot see the game returns false; an empty players list throws,    *)
(* which returns false as well, and so does a game without a VIP           *)
(* (current_vip_id NULL).                                                  *)
(***************************************************************************)
FetchPlayers(actor) == IF IsPlayer(actor) THEN game_players ELSE <<>>

\* mutant of FindIndex: index 0 when the user is absent
FindIndexAbsentAsFirst(players, current) ==
    IF \E i \in 1..Len(players) : players[i].user_id = current
    THEN (CHOOSE i \in 1..Len(players) :
             /\ players[i].user_id = current
             /\ \A j \in 1..(i - 1) : players[j].user_id # current) - 1
    ELSE 0

\* players.findIndex((p) => p.user_id === current), 0-based, -1 when absent
FindIndex(players, current) ==
    IF \E i \in 1..Len(players) : players[i].user_id = current
    THEN (CHOOSE i \in 1..Len(players) :
             /\ players[i].user_id = current
             /\ \A j \in 1..(i - 1) : players[j].user_id # current) - 1
    ELSE -1

\* mutant of NextVIPOf: always the first player of the list
NextVIPOfFirstPlayer(players, current) == players[1].user_id

NextVIPOf(players, current) ==
    LET currentIndex == FindIndex(players, current)
        nextIndex == (currentIndex + 1) % Len(players)
    IN  players[nextIndex + 1].user_id

RotateVIP(actor, players) ==
    /\ calls' = Begin(IF /\ IsPlayer(actor)
                         /\ game.current_vip_id # NoVIP
                         /\ Len(players) > 0
                      THEN [op |-> "rotateVIP", pc |-> "update", actor |-> actor,
                            players |-> players,
                            current |-> game.current_vip_id,
                            nextVIP |-> NextVIPOf(players, game.current_vip_id)]
                      ELSE [op |-> "rotateVIP", pc |-> "return", actor |-> actor,
                            result |-> FALSE])
    /\ UNCHANGED <<game, game_players, rounds, rankings, guesses, guessCalls, scoreRuns, applied>>
    /\ UNCHANGED <<games, games_players>>
    /\ UNCHANGED <<hasSubmitted, currentRound, notified>>

RotateVIPUpdate(c) ==
    /\ c.op = "rotateVIP" /\ c.pc = "update"
    /\ game' = IF CanUpdateGame(c.actor)
               THEN [game EXCEPT !.current_vip_id = c.nextVIP]
               ELSE game
    /\ calls' = Step(c, [op |-> "rotateVIP", pc |-> "return", actor |-> c.actor,
                         players |-> c.players,
                         current |-> c.current, nextVIP |-> c.nextVIP,
                         result |-> TRUE])
    /\ UNCHANGED <<game_players, rounds, rankings, guesses, guessCalls, scoreRuns, applied>>
    /\ UNCHANGED <<games, games_players>>
    /\ UNCHANGED <<hasSubmitted, currentRound, notified>>

\* the caller receives the call's result
Return(c) ==
    /\ c.pc = "return"
    /\ calls' = End(c)
    /\ UNCHANGED <<game, game_players, rounds, rankings, guesses, guessCalls, scoreRuns, applied>>
    /\ UNCHANGED <<games, games_players>>
    /\ UNCHANGED <<hasSubmitted, currentRound, notified>>

(***************************************************************************)
(* joinGame: SELECT the game by its code, SELECT the user's game_players   *)
(* row (found: return the game), SELECT the profile, INSERT the            *)
(* game_players row; any error returns null.  Policy "Players can view     *)
(* their games" shows a game to its players only: the lookup by a user who *)
(* is not yet a player is taken with both outcomes, the row hidden ('Game  *)
(* not found') and the row returned, the second being the one every joined *)
(* player of Init has been through.                                        *)
(***************************************************************************)
\* policy "Players can view their games", for a player of the game
CanViewGame(actor) == IsPlayer(actor)

\* policy "Players can view game players"
CanViewPlayers(actor) == IsPlayer(actor)

\* policy "Users can join games"
CanJoin(actor, userId) == actor = userId

\* mutant of GamePlayersUnique: no uniqueness constraint on game_players
GamePlayersUniqueNone(userId) == TRUE

\* UNIQUE(game_id, user_id) on game_players
GamePlayersUnique(userId) == ~IsPlayer(userId)

JoinGame(actor, userId, found) ==
    /\ CanViewGame(actor) => found
    /\ calls' = Begin(IF found
                      THEN [op |-> "joinGame", pc |-> "existing",
                            actor |-> actor, userId |-> userId]
                      ELSE [op |-> "joinGame", pc |-> "return",
                            actor |-> actor, userId |-> userId,
                            existing |-> FALSE, result |-> "null"])
    /\ UNCHANGED <<game, game_players, rounds, rankings, guesses, guessCalls, scoreRuns, applied>>
    /\ UNCHANGED <<games, games_players>>
    /\ UNCHANGED <<hasSubmitted, currentRound, notified>>

JoinGameExisting(c) ==
    /\ c.op = "joinGame" /\ c.pc = "existing"
    /\ LET existing == CanViewPlayers(c.actor) /\ IsPlayer(c.userId)
       IN  calls' = Step(c, IF existing
                            THEN [op |-> "joinGame", pc |-> "return",
                                  actor |-> c.actor, userId |-> c.userId,
                                  existing |-> TRUE, result |-> "game"]
                            ELSE [op |-> "joinGame", pc |-> "profile",
                                  actor |-> c.actor, userId |-> c.userId])
    /\ UNCHANGED <<game, game_players, rounds, rankings, guesses, guessCalls, scoreRuns, applied>>
    /\ UNCHANGED <<games, games_players>>
    /\ UNCHANGED <<hasSubmitted, currentRound, notified>>

JoinGameProfile(c) ==
    /\ c.op = "joinGame" /\ c.pc = "profile"
    /\ calls' = Step(c, [op |-> "joinGame", pc |-> "insert",
                         actor |-> c.actor, userId |-> c.userId])
    /\ UNCHANGED <<game, game_players, rounds, rankings, guesses, guessCalls, scoreRuns, applied>>
    /\ UNCHANGED <<games, games_players>>
    /\ UNCHANGED <<hasSubmitted, currentRound, notified>>

JoinGameInsert(c) ==
    /\ c.op = "joinGame" /\ c.pc = "insert"
    /\ LET accepted == CanJoin(c.actor, c.userId) /\ GamePlayersUnique(c.userId)
       IN  /\ game_players' =
                 IF accepted
                 THEN Append(game_players, [user_id |-> c.userId, score |-> 0])
                 ELSE game_players
           /\ calls' = Step(c, [op |-> "joinGame", pc |-> "return",
                                actor |-> c.actor, userId |-> c.userId,
                                existing |-> FALSE,
                                result |-> IF accepted THEN "game" ELSE "null"])
    /\ UNCHANGED <<game, rounds, rankings, guesses, guessCalls, scoreRuns, applied>>
    /\ UNCHANGED <<games, games_players>>
    /\ UNCHANGED <<hasSubmitted, currentRound, notified>>

(***************************************************************************)
(* createGame: generate a code, INSERT the games row (creator and VIP the  *)
(* caller's userId, status and the rest by default) and read it back,      *)
(* SELECT the profile, INSERT the creator's game_players row; any error    *)
(* returns null.  Nothing is retried and nothing is undone.  Besides the   *)
(* policies and constraints, an INSERT can fail for reasons outside the    *)
(* tables (the row read back hidden by policy "Players can view their      *)
(* games", a lost connection): ok is the outcome of that.                  *)
(***************************************************************************)
Codes == 1..NCodes

\* policy "Users can create games"
CanCreateGame(actor, userId) == actor = userId

\* games.code UNIQUE
GamesCodeUnique(code) == \A g \in games : g.code # code

\* mutant of NewGame: the game row without its VIP (current_vip_id NULL)
NewGameWithoutVIP(code, userId) ==
    [code |-> code, creator_id |-> userId, current_vip_id |-> 0,
     status |-> "waiting", target_score |-> target_score]

NewGame(code, userId) ==
    [code |-> code, creator_id |-> userId, current_vip_id |-> userId,
     status |-> "waiting", target_score |-> target_score]

GamePlayersOf(code) == {m \in games_players : m.code = code}

CreateGame(actor, userId, code, ok) ==
    /\ LET accepted == ok /\ CanCreateGame(actor, userId) /\ GamesCodeUnique(code)
       IN  /\ games' = IF accepted THEN games \cup {NewGame(code, userId)} ELSE games
           /\ calls' = Begin(IF accepted
                             THEN [op |-> "createGame", pc |-> "profile",
                                   actor |-> actor, userId |-> userId,
                                   code |-> code]
                             ELSE [op |-> "createGame", pc |-> "return",
                                   actor |-> actor, userId |-> userId,
                                   code |-> code,
                                   collided |-> ~GamesCodeUnique(code),
                                   result |-> "null"])
    /\ UNCHANGED <<game, game_players, rounds, rankings, guesses, guessCalls, scoreRuns, applied>>
    /\ UNCHANGED games_players
    /\ UNCHANGED <<hasSubmitted, currentRound, notified>>

CreateGameProfile(c) ==
    /\ c.op = "createGame" /\ c.pc = "profile"
    /\ calls' = Step(c, [op |-> "createGame", pc |-> "insert", actor |-> c.actor,
                         userId |-> c.userId, code |-> c.code])
    /\ UNCHANGED <<game, game_players, rounds, rankings, guesses, guessCalls, scoreRuns, applied>>
    /\ UNCHANGED <<games, games_players>>
    /\ UNCHANGED <<hasSubmitted, currentRound, notified>>

CreateGameInsert(c, ok) ==
    /\ c.op = "createGame" /\ c.pc = "insert"
    /\ LET accepted == /\ ok
                       /\ CanJoin(c.actor, c.userId)
                       /\ \A m \in GamePlayersOf(c.code) : m.user_id # c.userId
       IN  /\ games_players' =
                 IF accepted
                 THEN games_players \cup
                          {[code |-> c.code, user_id |-> c.userId, score |-> 0]}
                 ELSE games_players
           /\ calls' = Step(c, [op |-> "createGame", pc |-> "return",
                                actor |-> c.actor, userId |-> c.userId,
                                code |-> c.code, collided |-> FALSE,
                                result |-> IF accepted THEN "game" ELSE "null"])
    /\ UNCHANGED <<game, game_players, rounds, rankings, guesses, guessCalls, scoreRuns, applied>>
    /\ UNCHANGED games
    /\ UNCHANGED <<hasSubmitted, currentRound, notified>>

(***************************************************************************)
(* The PlayerGuessing screen of a user who is not the game's VIP.          *)
(* handleSubmit: awaits submitGuess (the read of the rankings, then the    *)
(* INSERT, which besides the policy and the constraints can fail for       *)
(* reasons outside the tables: ok), then sets hasSubmitted.  submitGuess   *)
(* catches its own errors and returns false, so nothing reaches the catch  *)
(* of handleSubmit.  The submit control is disabled while submitting or    *)
(* hasSubmitted.  checkSubmissionStatus: SELECT the user_ids of the        *)
(* round's guesses the user can see, then set hasSubmitted to whether the  *)
(* user's own id is among them.                                            *)
(***************************************************************************)
IsVIP(user) == game.current_vip_id = user

Submitting(user) == \E c \in InFlight : c.op = "handleSubmit" /\ c.actor = user

HandleSubmit(user, r, items) ==
    /\ ~IsVIP(user)
    /\ r \in DOMAIN rounds /\ items # {}
    /\ ~Submitting(user) /\ ~hasSubmitted[user]
    /\ guessCalls' = guessCalls + 1
    /\ calls' = Begin([op |-> "handleSubmit", pc |-> "insert", actor |-> user,
                       round |-> r,
                       rows |-> GuessesWithCorrectness(VisibleRankings(user, r),
                                                       r, user, items)])
    /\ UNCHANGED <<game, game_players, rounds, rankings, guesses, scoreRuns, applied>>
    /\ UNCHANGED <<games, games_players>>
    /\ UNCHANGED <<hasSubmitted, currentRound, notified>>

HandleSubmitInsert(c, ok) ==
    /\ c.op = "handleSubmit" /\ c.pc = "insert"
    /\ LET accepted == ok /\ GuessInsertAccepted(c.actor, c.rows)
       IN  /\ guesses' = IF accepted THEN guesses \cup c.rows ELSE guesses
           /\ calls' = Step(c, [op |-> "handleSubmit", pc |-> "resolved",
                                actor |-> c.actor, round |-> c.round,
                                result |-> accepted])
    /\ UNCHANGED <<game, game_players, rounds, rankings, guessCalls, scoreRuns, applied>>
    /\ UNCHANGED <<games, games_players>>
    /\ UNCHANGED <<hasSubmitted, currentRound, notified>>

\* line 122: setHasSubmitted(true), whatever submitGuess returned
HandleSubmitResolved(c) ==
    /\ c.op = "handleSubmit" /\ c.pc = "resolved"
    /\ hasSubmitted' = [hasSubmitted EXCEPT ![c.actor] = TRUE]
    /\ calls' = End(c)
    /\ UNCHANGED <<game, game_players, rounds, rankings, guesses, guessCalls, scoreRuns, applied>>
    /\ UNCHANGED <<games, games_players>>
    /\ UNCHANGED <<currentRound, notified>>

CheckSubmissionStatus(user, r) ==
    /\ ~IsVIP(user)
    /\ r \in DOMAIN rounds
    /\ calls' = Begin([op |-> "checkSubmissionStatus", pc |-> "set",
                       actor |-> user, round |-> r,
                       includes |-> \E g \in VisibleGuesses(user, r) :
                                       g.user_id = user])
    /\ UNCHANGED <<game, game_players, rounds, rankings, guesses, guessCalls, scoreRuns, applied>>
    /\ UNCHANGED <<games, games_players>>
    /\ UNCHANGED <<hasSubmitted, currentRound, notified>>

CheckSubmissionStatusSet(c) ==
    /\ c.op = "checkSubmissionStatus" /\ c.pc = "set"
    /\ hasSubmitted' = [hasSubmitted EXCEPT ![c.actor] = c.includes]
    /\ calls' = End(c)
    /\ UNCHANGED <<game, game_players, rounds, rankings, guesses, guessCalls, scoreRuns, applied>>
    /\ UNCHANGED <<games, games_players>>
    /\ UNCHANGED <<currentRound, notified>>

(***************************************************************************)
(* useGameState of one client, a player of the game: every change of a     *)
(* rounds row of the game is notified to the client, whose handler calls   *)
(* fetchCurrentRound: the query is sent, runs on the database at some      *)
(* later moment, and its response sets currentRound when it arrives.       *)
(* Nothing orders the responses of two fetches.  notified is the rounds    *)
(* table as of the last notification handled.                              *)
(***************************************************************************)
RoundsChanged ==
    /\ notified # rounds
    /\ notified' = rounds
    /\ calls' = Begin([op |-> "fetchCurrentRound", pc |-> "query"])
    /\ UNCHANGED <<game, game_players, rounds, rankings, guesses, guessCalls, scoreRuns, applied>>
    /\ UNCHANGED <<games, games_players>>
    /\ UNCHANGED <<hasSubmitted, currentRound>>

FetchCurrentRoundQuery(c) ==
    /\ c.op = "fetchCurrentRound" /\ c.pc = "query"
    /\ calls' = Step(c, [op |-> "fetchCurrentRound", pc |-> "response",
                         data |-> LatestRound])
    /\ UNCHANGED <<game, game_players, rounds, rankings, guesses, guessCalls, scoreRuns, applied>>
    /\ UNCHANGED <<games, games_players>>
    /\ UNCHANGED <<hasSubmitted, currentRound, notified>>

FetchCurrentRoundResponse(c) ==
    /\ c.op = "fetchCurrentRound" /\ c.pc = "response"
    /\ currentRound' = c.data
    /\ calls' = End(c)
    /\ UNCHANGED <<game, game_players, rounds, rankings, guesses, guessCalls, scoreRuns, applied>>
    /\ UNCHANGED <<games, games_players>>
    /\ UNCHANGED <<hasSubmitted, notified>>

(***************************************************************************)
(* Clients call the operations in any order.  Spec: the game with guessing *)
(* and scoring, the VIP submitting complete rankings.  SpecRound: the      *)
(* round's lifecycle with every kind of ranking submission and the reveal  *)
(* steps, no player guessing.                                              *)
(***************************************************************************)
Next ==
    \/ \E actor \in Users : StartRound(actor)
    \/ \E n \in RoundNumbers :
          SelectTopic(game.current_vip_id, game.current_vip_id, n)
    \/ \E actor \in Users, r \in RoundNumbers, sub \in FullSubmissions :
          CallsBelow(MaxCalls) /\ SubmitVIPRanking(actor, r, sub)
    \/ \E c \in InFlight : SubmitVIPRankingUpdate(c)
    \/ \E actor \in Users, r \in RoundNumbers, sub \in GuessSubmissions :
          /\ CallsBelow(MaxCalls) /\ GuessCallsBelow(MaxGuessCalls)
          /\ SubmitGuess(actor, r, actor, sub)
    \/ \E c \in InFlight : SubmitGuessInsert(c)
    \/ \E actor \in Users, r \in RoundNumbers : StartReveal(actor, r)
    \/ \E actor \in Users, r \in RoundNumbers :
          /\ CallsBelow(MaxCalls) /\ ScoreRunsBelow(r, MaxScoreRuns)
          /\ RevealNextComplete(actor, r, totalItems)
    \/ \E c \in InFlight : CalculateScoresRead(c)
    \/ \E c \in InFlight, userId \in Users : CalculateScoresSelect(c, userId)
    \/ \E c \in InFlight : CalculateScoresUpdate(c)
    \/ \E c \in InFlight : CalculateScoresCheck(c)

Spec == Init /\ [][Next]_vars

NextRound ==
    \/ \E actor \in Users : StartRound(actor)
    \/ \E actor, vipId \in Users, n \in RoundNumbers : SelectTopic(actor, vipId, n)
    \/ \E actor \in Users, r \in RoundNumbers, sub \in Submissions :
          CallsBelow(MaxCalls) /\ SubmitVIPRanking(actor, r, sub)
    \/ \E c \in InFlight : SubmitVIPRankingUpdate(c)
    \/ \E actor \in Users, r \in RoundNumbers : StartReveal(actor, r)
    \/ \E actor \in Users, r \in RoundNumbers, i \in 0..totalItems :
          RevealNextAdvance(actor, r, i)
    \/ \E actor \in Users, r \in RoundNumbers, i \in 0..totalItems :
          /\ CallsBelow(MaxCalls) /\ ScoreRunsBelow(r, MaxScoreRuns)
          /\ RevealNextComplete(actor, r, i)
    \/ \E c \in InFlight : CalculateScoresRead(c)
    \/ \E c \in InFlight : CalculateScoresCheck(c)

SpecRound == Init /\ [][NextRound]_vars

(***************************************************************************)
(* SpecScoring: guessing and one scoring of one round, one call at a time, *)
(* from the state Spec reaches when the creator has selected a topic,      *)
(* submitted the identity ranking and started the reveal.                  *)
(***************************************************************************)
RoundRevealing ==
    /\ game_players = [i \in 1..NUsers |-> [user_id |-> i, score |-> 0]]
    /\ rounds = [r \in {1} |->
                    [vip_id |-> Creator, status |-> "revealing", reveal_index |-> 1]]
    /\ rankings = RankingRows(1, Rows(IdentityRanking))
    /\ guesses = {}
    /\ calls = EmptyBag
    /\ guessCalls = 0
    /\ scoreRuns = [r \in RoundNumbers |-> 0]
    /\ applied = [p \in RoundNumbers \X Users |-> 0]
    /\ games = {}
    /\ games_players = {}
    /\ hasSubmitted = [u \in Users |-> FALSE]
    /\ currentRound = LatestRound
    /\ notified = rounds

InitScoring ==
    /\ game = [status |-> "waiting", current_vip_id |-> Creator,
               target_score |-> target_score]
    /\ RoundRevealing

NextScoring ==
    \/ \E actor \in Users, sub \in GuessSubmissions :
          /\ Idle /\ GuessCallsBelow(ScoringGuessCalls)
          /\ SubmitGuess(actor, 1, actor, sub)
    \/ \E c \in InFlight : SubmitGuessInsert(c)
    \/ \E actor \in Users :
          /\ Idle /\ scoreRuns[1] = 0
          /\ RevealNextComplete(actor, 1, totalItems)
    \/ \E c \in InFlight : CalculateScoresRead(c)
    \/ \E c \in InFlight, userId \in Users : CalculateScoresSelect(c, userId)
    \/ \E c \in InFlight : CalculateScoresUpdate(c)
    \/ \E c \in InFlight : CalculateScoresCheck(c)

SpecScoring == InitScoring /\ [][NextScoring]_vars

(***************************************************************************)
(* SpecGame: the game around one round, one call at a time: games created  *)
(* with each target score, startRound, guessing and one scoring of the     *)
(* round, and VIP rotation.                                                *)
(***************************************************************************)
InitGame ==
    /\ game \in {[status |-> "waiting", current_vip_id |-> Creator,
                   target_score |-> t] : t \in TargetScores}
    /\ RoundRevealing

NextGame ==
    \/ \E actor \in Users : Idle /\ StartRound(actor)
    \/ \E actor \in Users, sub \in GuessSubmissions :
          /\ Idle /\ GuessCallsBelow(GameGuessCalls)
          /\ SubmitGuess(actor, 1, actor, sub)
    \/ \E c \in InFlight : SubmitGuessInsert(c)
    \/ \E actor \in Users :
          /\ Idle /\ scoreRuns[1] = 0
          /\ RevealNextComplete(actor, 1, totalItems)
    \/ \E c \in InFlight : CalculateScoresRead(c)
    \/ \E c \in InFlight, userId \in Users : CalculateScoresSelect(c, userId)
    \/ \E c \in InFlight : CalculateScoresUpdate(c)
    \/ \E c \in InFlight : CalculateScoresCheck(c)
    \/ \E actor \in Users : Idle /\ RotateVIP(actor, FetchPlayers(actor))
    \/ \E c \in InFlight : RotateVIPUpdate(c)
    \/ \E c \in InFlight : Return(c)

SpecGame == InitGame /\ [][NextGame]_vars

(***************************************************************************)
(* SpecJoin: the state after createGame by Creator, then joinGame calls of *)
(* every user for themselves (GameContext.joinGame passes the session's    *)
(* user id), concurrently.                                                 *)
(***************************************************************************)
InitJoin ==
    /\ game = [status |-> "waiting", current_vip_id |-> Creator,
               target_score |-> target_score]
    /\ game_players = <<[user_id |-> Creator, score |-> 0]>>
    /\ rounds = <<>>
    /\ rankings = {}
    /\ guesses = {}
    /\ calls = EmptyBag
    /\ guessCalls = 0
    /\ scoreRuns = [r \in RoundNumbers |-> 0]
    /\ applied = [p \in RoundNumbers \X Users |-> 0]
    /\ games = {}
    /\ games_players = {}
    /\ hasSubmitted = [u \in Users |-> FALSE]
    /\ currentRound = LatestRound
    /\ notified = rounds

NextJoin ==
    \/ \E actor \in Users, found \in BOOLEAN :
          CallsBelow(MaxJoinCalls) /\ JoinGame(actor, actor, found)
    \/ \E c \in InFlight : JoinGameExisting(c)
    \/ \E c \in InFlight : JoinGameProfile(c)
    \/ \E c \in InFlight : JoinGameInsert(c)
    \/ \E c \in InFlight : Return(c)

SpecJoin == InitJoin /\ [][NextJoin]_vars

(***************************************************************************)
(* SpecCreate: createGame calls of every user for themselves               *)
(* (GameContext.createGame passes the session's user id), concurrently,    *)
(* with every code.                                                        *)
(***************************************************************************)
NextCreate ==
    \/ \E actor \in Users, code \in Codes, ok \in BOOLEAN :
          CallsBelow(MaxCalls) /\ CreateGame(actor, actor, code, ok)
    \/ \E c \in InFlight : CreateGameProfile(c)
    \/ \E c \in InFlight, ok \in BOOLEAN : CreateGameInsert(c, ok)
    \/ \E c \in InFlight : Return(c)

SpecCreate == Init /\ [][NextCreate]_vars

(***************************************************************************)
(* SpecTopics: the rounds of a game: startRound and selectTopic by every   *)
(* user with every round number, startReveal, and the completion of the    *)
(* rounds that are scored.                                                 *)
(***************************************************************************)
NextTopics ==
    \/ \E actor \in Users : StartRound(actor)
    \/ \E actor, vipId \in Users, n \in 1..MaxTopicRounds :
          SelectTopic(actor, vipId, n)
    \/ \E actor \in Users, r \in 1..MaxTopicRounds : StartReveal(actor, r)
    \/ \E actor \in Users, r \in RoundNumbers :
          /\ Idle /\ ScoreRunsBelow(r, MaxScoreRuns)
          /\ RevealNextComplete(actor, r, totalItems)
    \/ \E c \in InFlight : CalculateScoresRead(c)
    \/ \E c \in InFlight : CalculateScoresCheck(c)

SpecTopics == Init /\ [][NextTopics]_vars

(***************************************************************************)
(* SpecRotate: rotateVIP calls of every user with every players list, on   *)
(* a game with each VIP or none.  A list holds distinct user ids; a        *)
(* client's list is empty before its first fetch and may be out of date,   *)
(* naming a user who is no longer a player (ListUsers has one such id) or  *)
(* lacking the current VIP.                                                *)
(***************************************************************************)
ListUsers == 1..(NUsers + 1)

PlayerLists ==
    {[i \in DOMAIN f |-> [user_id |-> f[i]]] :
        f \in {g \in UNION {[1..n -> ListUsers] : n \in 0..MaxListLen} :
                  \A i, j \in DOMAIN g : i # j => g[i] # g[j]}}

InitRotate ==
    /\ game \in {[status |-> "waiting", current_vip_id |-> v,
                   target_score |-> target_score] : v \in Users \cup {NoVIP}}
    /\ game_players = [i \in 1..NUsers |-> [user_id |-> i, score |-> 0]]
    /\ rounds = <<>>
    /\ rankings = {}
    /\ guesses = {}
    /\ calls = EmptyBag
    /\ guessCalls = 0
    /\ scoreRuns = [r \in RoundNumbers |-> 0]
    /\ applied = [p \in RoundNumbers \X Users |-> 0]
    /\ games = {}
    /\ games_players = {}
    /\ hasSubmitted = [u \in Users |-> FALSE]
    /\ currentRound = LatestRound
    /\ notified = rounds

NextRotate ==
    \/ \E actor \in Users, players \in PlayerLists :
          CallsBelow(MaxCalls) /\ RotateVIP(actor, players)
    \/ \E c \in InFlight : RotateVIPUpdate(c)
    \/ \E c \in InFlight : Return(c)

SpecRotate == InitRotate /\ [][NextRotate]_vars

(***************************************************************************)
(* SpecGuessing: the PlayerGuessing screens of the users who are not the   *)
(* game's VIP, on a round in player_guessing whose VIP has submitted the   *)
(* identity ranking; the game's VIP is any player (rotateVIP can be called *)
(* during a round).                                                        *)
(***************************************************************************)
InitGuessing ==
    /\ game \in {[status |-> "waiting", current_vip_id |-> v,
                   target_score |-> target_score] : v \in Users}
    /\ game_players = [i \in 1..NUsers |-> [user_id |-> i, score |-> 0]]
    /\ rounds = [r \in {1} |->
                    [vip_id |-> Creator, status |-> "player_guessing",
                     reveal_index |-> 0]]
    /\ rankings = RankingRows(1, Rows(IdentityRanking))
    /\ guesses = {}
    /\ calls = EmptyBag
    /\ guessCalls = 0
    /\ scoreRuns = [r \in RoundNumbers |-> 0]
    /\ applied = [p \in RoundNumbers \X Users |-> 0]
    /\ games = {}
    /\ games_players = {}
    /\ hasSubmitted = [u \in Users |-> FALSE]
    /\ currentRound = LatestRound
    /\ notified = rounds

NextGuessing ==
    \/ \E user \in Users, items \in GuessSubmissions :
          /\ CallsBelow(MaxCalls) /\ GuessCallsBelow(PlayGuessCalls)
          /\ HandleSubmit(user, 1, items)
    \/ \E c \in InFlight, ok \in BOOLEAN : HandleSubmitInsert(c, ok)
    \/ \E c \in InFlight : HandleSubmitResolved(c)
    \/ \E user \in Users : CallsBelow(MaxCalls) /\ CheckSubmissionStatus(user, 1)
    \/ \E c \in InFlight : CheckSubmissionStatusSet(c)

SpecGuessing == InitGuessing /\ [][NextGuessing]_vars

(***************************************************************************)
(* SpecPlay: one round played the way the screens drive it, one call at a  *)
(* time: every user calls each operation while the round has the status    *)
(* the operation's screen is shown in (VIPRanking in vip_ranking,          *)
(* PlayerGuessing in player_guessing, RevealAnimation in revealing), and   *)
(* revealNext with the round's current reveal_index.                       *)
(***************************************************************************)
InStatus(r, status) == r \in DOMAIN rounds /\ rounds[r].status = status

NextPlay ==
    \/ \E actor \in Users : Idle /\ StartRound(actor)
    \/ \E n \in RoundNumbers :
          Idle /\ SelectTopic(game.current_vip_id, game.current_vip_id, n)
    \/ \E actor \in Users, r \in RoundNumbers, sub \in FullSubmissions :
          Idle /\ InStatus(r, "vip_ranking") /\ SubmitVIPRanking(actor, r, sub)
    \/ \E c \in InFlight : SubmitVIPRankingUpdate(c)
    \/ \E actor \in Users, r \in RoundNumbers, sub \in GuessSubmissions :
          /\ Idle /\ InStatus(r, "player_guessing") /\ GuessCallsBelow(PlayGuessCalls)
          /\ SubmitGuess(actor, r, actor, sub)
    \/ \E c \in InFlight : SubmitGuessInsert(c)
    \/ \E actor \in Users, r \in RoundNumbers :
          Idle /\ InStatus(r, "player_guessing") /\ StartReveal(actor, r)
    \/ \E actor \in Users, r \in RoundNumbers :
          /\ Idle /\ InStatus(r, "revealing")
          /\ RevealNextAdvance(actor, r, rounds[r].reveal_index)
    \/ \E actor \in Users, r \in RoundNumbers :
          /\ Idle /\ InStatus(r, "revealing") /\ ScoreRunsBelow(r, MaxScoreRuns)
          /\ RevealNextComplete(actor, r, rounds[r].reveal_index)
    \/ \E c \in InFlight : CalculateScoresRead(c)
    \/ \E c \in InFlight, userId \in Users : CalculateScoresSelect(c, userId)
    \/ \E c \in InFlight : CalculateScoresUpdate(c)
    \/ \E c \in InFlight : CalculateScoresCheck(c)

SpecPlay == Init /\ [][NextPlay]_vars

(***************************************************************************)
(* SpecFetch: one client's useGameState while the game's VIP creates       *)
(* rounds, starts the reveal of each once and reveals items.  No rounds    *)
(* row returns to an earlier value, so notified differs from rounds        *)
(* exactly while a change notification is still to be handled.             *)
(***************************************************************************)
NextFetch ==
    \/ \E n \in 1..MaxTopicRounds :
          SelectTopic(game.current_vip_id, game.current_vip_id, n)
    \/ \E actor \in Users, r \in 1..MaxTopicRounds :
          InStatus(r, "vip_ranking") /\ StartReveal(actor, r)
    \/ \E actor \in Users, r \in 1..MaxTopicRounds :
          InStatus(r, "revealing") /\ RevealNextAdvance(actor, r, rounds[r].reveal_index)
    \/ CallsBelow(MaxCalls) /\ RoundsChanged
    \/ \E c \in InFlight : FetchCurrentRoundQuery(c)
    \/ \E c \in InFlight : FetchCurrentRoundResponse(c)

SpecFetch == Init /\ [][NextFetch]_vars

(***************************************************************************)
(* Claims.                                                                 *)
(***************************************************************************)
UserGuesses(gs, u) == {g \in gs : g.user_id = u}

CorrectCount(gs, u) == Cardinality({g \in UserGuesses(gs, u) : g.is_correct})

Guessers(gs) == {g.user_id : g \in gs}

Scoring(c) == c.op = "revealNext" /\ c.pc \in {"select", "update", "check"}

\* The score change the claim gives player u for the guess rows gs.
ExpectedScoreChange(gs, u) ==
    LET k == CorrectCount(gs, u)
        n == Cardinality(UserGuesses(gs, u))
    IN  k * points_per_correct
            + (IF k = n THEN bonus_all_correct ELSE 0)
            + (IF k = 0 THEN penalty_all_wrong ELSE 0)

ScoreChangesComputed ==
    \A c \in InFlight :
        Scoring(c) =>
            /\ DOMAIN c.scoreUpdates = Guessers(c.guesses)
            /\ \A u \in Guessers(c.guesses) :
                  c.scoreUpdates[u] = ExpectedScoreChange(c.guesses, u)

ScoreChangeApplied ==
    \A r \in RoundNumbers, u \in Users :
        applied'[<<r, u>>] # applied[<<r, u>>] =>
            \E c \in InFlight :
                /\ c.op = "revealNext" /\ c.pc = "update"
                /\ c.round = r /\ c.userId = u
                /\ ScoreOf(u)' - ScoreOf(u) = ExpectedScoreChange(c.guesses, u)

\* C1: for every player with at least one guess row among those calculateScores
\* read for a round, the score change it computes, and the change of the
\* player's score when its write takes effect, is correctCount *
\* points_per_correct, plus bonus_all_correct when all of the player's guesses
\* are correct, plus penalty_all_wrong when all are incorrect, and nothing more
\* when the player is partially correct; no other player gets a score change.
C1_ScoreChangeFormula == []ScoreChangesComputed /\ [][ScoreChangeApplied]_vars

\* C1 witness: calculateScores has computed and applied the score change of a
\* player who is partially correct (one guess right, one wrong), and computed
\* the penalty of a player whose guesses are all wrong.
C1_Witness ==
    \E c \in InFlight :
        /\ Scoring(c)
        /\ \E u \in Guessers(c.guesses) :
              /\ 0 < CorrectCount(c.guesses, u)
              /\ CorrectCount(c.guesses, u) < Cardinality(UserGuesses(c.guesses, u))
              /\ c.scoreUpdates[u] = points_per_correct
              /\ applied[<<c.round, u>>] = 1
              /\ ScoreOf(u) = points_per_correct
        /\ \E v \in Guessers(c.guesses) :
              /\ CorrectCount(c.guesses, v) = 0
              /\ c.scoreUpdates[v] = penalty_all_wrong

RoundScored(r) ==
    /\ rounds[r].status = "complete"
    /\ scoreRuns[r] > 0
    /\ \A c \in InFlight : ~(c.op = "revealNext" /\ c.round = r)

\* C2: in every round that has been scored, a guess row's is_correct is true
\* exactly when its position equals the position the VIP's ranking gives to
\* the same item.
C2_IsCorrectMatchesRanking ==
    \A r \in DOMAIN rounds :
        RoundScored(r) =>
            \A g \in RoundGuesses(r) :
                g.is_correct <=>
                    \E k \in RoundRankings(r) :
                        k.item_id = g.item_id /\ k.position = g.position

\* C3: guess rows of a round are inserted only while the round's status is
\* player_guessing.
C3_GuessesOnlyWhilePlayerGuessing ==
    [][\A r \in DOMAIN rounds :
          {g \in guesses' : g.round_id = r} # {g \in guesses : g.round_id = r}
              => rounds[r].status = "player_guessing"]_vars

\* C4: whatever revealNext calls are made on a round, calculateScores adds the
\* round's delta to a player's score at most once (the claim's "exactly once"
\* without its "at least once").
C4_ScoresAppliedAtMostOnce ==
    \A r \in RoundNumbers, u \in Users : applied[<<r, u>>] <= 1

\* C5: a round's status only moves forward along topic_selection, vip_ranking,
\* player_guessing, revealing, complete, one status at a time.
C5_RoundStatusForwardOneStep ==
    [][\A r \in DOMAIN rounds :
          \/ rounds'[r].status = rounds[r].status
          \/ StatusRank(rounds'[r].status) = StatusRank(rounds[r].status) + 1]_vars

\* C6: a finished game stays finished, and a playing game never goes back to
\* waiting.
C6_GameStatusForward ==
    [][/\ game.status = "finished" => game'.status = "finished"
       /\ game.status = "playing" => game'.status # "waiting"]_vars

\* C7: once a user has guess rows in a round, every later submitGuess of that
\* user for that round is rejected: the rows stay those of the first accepted
\* submission.
C7_FirstGuessSubmissionStands ==
    [][\A r \in DOMAIN rounds, u \in Users :
          UserGuesses(RoundGuesses(r), u) # {}
              => {g \in guesses' : g.round_id = r /\ g.user_id = u}
                     = UserGuesses(RoundGuesses(r), u)]_vars

SameRoundAndUser(c, d) ==
    /\ c.op = "submitGuess" /\ d.op = "submitGuess"
    /\ c.round = d.round /\ c.actor = d.actor
    /\ (c # d \/ CopiesIn(c, calls) >= 2)

\* C8: of two submitGuess calls for the same (round, user) in flight together,
\* the insert of one being accepted makes the insert of the other one be
\* rejected.
C8_ConcurrentGuessOneAccepted ==
    [][\A c, d \in InFlight :
          (/\ SameRoundAndUser(c, d)
           /\ calls' = End(c)
           /\ guesses' = guesses \cup c.rows
           /\ guesses' # guesses)
              => ~GuessInsertAccepted(d.actor, d.rows)']_vars

\* C9: once a round has ranking rows, every later submitVIPRanking for it is
\* rejected and its ranking rows stay as they are.
C9_SecondRankingRejected ==
    [][\A r \in DOMAIN rounds :
          RoundRankings(r) # {}
              => {k \in rankings' : k.round_id = r} = RoundRankings(r)]_vars

\* C10: the ranking rows stored for a round are those of one submission that
\* gives every item of the topic a distinct position of 0..N-1: a round has
\* either no ranking row or a permutation of the topic's items.
C10_RankingIsPermutation ==
    \A r \in DOMAIN rounds :
        \/ RoundRankings(r) = {}
        \/ {[item_id |-> k.item_id, position |-> k.position] : k \in RoundRankings(r)}
               \in FullSubmissions

RoundAndRankingsKept == rounds' = rounds /\ rankings' = rankings

\* C11: a submitVIPRanking, startReveal or revealNext call issued by a user who
\* is not the round's VIP leaves the round row and the rankings unchanged.
C11_OnlyVIPChangesRound ==
    [][\A r \in DOMAIN rounds : \A actor \in Users \ {rounds[r].vip_id} :
          /\ (\E sub \in Submissions : SubmitVIPRanking(actor, r, sub))
                 => RoundAndRankingsKept
          /\ StartReveal(actor, r) => RoundAndRankingsKept
          /\ (\E i \in 0..totalItems :
                  RevealNextAdvance(actor, r, i) \/ RevealNextComplete(actor, r, i))
                 => RoundAndRankingsKept]_vars

\* C11 witness: a user who is not the VIP has called revealNext past the last
\* item of a revealing round with a ranking; the round is still revealing.
C11_Witness ==
    \E c \in InFlight :
        /\ c.op = "revealNext"
        /\ c.actor # rounds[c.round].vip_id
        /\ rounds[c.round].status = "revealing"
        /\ RoundRankings(c.round) # {}
        /\ \A d \in InFlight : d.actor = c.actor

\* C12: a round's reveal_index stays in 0..N, and every change of it made by
\* revealNext while the round is revealing increases it by exactly 1, whatever
\* currentIndex the caller passes.
C12_RevealIndexStepsByOne ==
    [][\A r \in DOMAIN rounds :
          /\ rounds'[r].reveal_index \in 0..totalItems
          /\ (/\ rounds[r].status = "revealing"
              /\ \E actor \in Users, i \in 0..totalItems :
                    RevealNextAdvance(actor, r, i)
              /\ rounds'[r].reveal_index # rounds[r].reveal_index)
                 => rounds'[r].reveal_index = rounds[r].reveal_index + 1]_vars

Completes(c) == c.op = "revealNext" /\ c.pc = "check" /\ calls' = End(c)

\* C13: when calculateScores completes for a round, every player it computed a
\* score change for has had that change added to the score once: the score is
\* the score before the round (0 in SpecScoring) plus the player's delta,
\* whichever user called revealNext.
C13_EveryGuesserScored ==
    [][\A c \in InFlight :
          Completes(c) =>
              \A u \in DOMAIN c.scoreUpdates :
                  /\ applied[<<c.round, u>>] = 1
                  /\ ScoreOf(u) = ExpectedScoreChange(c.guesses, u)]_vars

\* C14: the score changes of a round are applied as one unit: in no state of
\* a calculateScores run has one of the players it scores received the change
\* while another has not.
C14_ScoresAppliedAtomically ==
    \A c \in InFlight :
        Scoring(c) =>
            ~ \E u, v \in DOMAIN c.scoreUpdates :
                  applied[<<c.round, u>>] > 0 /\ applied[<<c.round, v>>] = 0

\* C15: when calculateScores completes for a round, the game is finished if
\* and only if some player's score is at least the game's target_score, for
\* every configured target_score, 0 included.
C15_FinishedIffTargetReached ==
    [][\A c \in InFlight :
          Completes(c) =>
              (game'.status = "finished" <=> SomeScoreReaches(game.target_score))]_vars

\* C16: once the game is finished its current_vip_id never changes again.
C16_NoRotationWhenFinished ==
    [][game.status = "finished"
          => game'.current_vip_id = game.current_vip_id]_vars

\* The player who joined immediately after player u, the first player after
\* the last.
JoinSuccessor(u) ==
    game_players[(PlayerIndex(u) % Len(game_players)) + 1].user_id

RECURSIVE Rotated(_, _)
Rotated(u, n) ==
    IF n = 0 THEN u ELSE NextVIPOf(game_players, Rotated(u, n - 1))

FullCycle ==
    \A u \in Users :
        /\ Rotated(u, NUsers) = u
        /\ {Rotated(u, n) : n \in 0..(NUsers - 1)} = Users

VIPMovesToSuccessor ==
    game'.current_vip_id # game.current_vip_id
        => game'.current_vip_id = JoinSuccessor(game.current_vip_id)

C18_VIPRotatesOnCompletion ==
    [][\A c \in InFlight :
          (Completes(c) /\ ~SomeScoreReaches(game.target_score))
              => game'.current_vip_id # rounds[c.round].vip_id]_vars

NoDuplicatePlayers ==
    \A i, j \in 1..Len(game_players) :
        i # j => game_players[i].user_id # game_players[j].user_id

ExistingPlayersKept ==
    \A i \in 1..Len(game_players) :
        i <= Len(game_players') /\ game_players'[i] = game_players[i]

\* C19: after any interleaving of joinGame calls the game has at most one
\* game_players row per user, and no joinGame call changes an existing row
\* (its score, its place in the join order).
C19_OnePlayerRowPerUser == []NoDuplicatePlayers /\ [][ExistingPlayersKept]_vars

\* C19 witness: a user who joined through joinGame has called joinGame again
\* alongside another joinGame call of theirs; the repeated call found the
\* existing row and returned the game.
C19_Witness ==
    \E c \in InFlight :
        /\ c.op = "joinGame" /\ c.pc = "return"
        /\ c.userId # Creator /\ c.existing /\ c.result = "game"
        /\ IsPlayer(c.userId)
        /\ \E d \in InFlight : d # c /\ d.op = "joinGame" /\ d.userId = c.userId

\* C20: a joinGame call for a user who is a player of the game when the call
\* returns, having been one before or become one through a concurrent
\* joinGame call, returns the game.
C20_JoinOfMemberReturnsGame ==
    \A c \in InFlight :
        (c.op = "joinGame" /\ c.pc = "return" /\ IsPlayer(c.userId))
            => c.result = "game"

ReturnedGame(c) == c.op = "createGame" /\ c.pc = "return" /\ c.result = "game"

\* C21: whenever createGame returns a game, that game has status waiting, its
\* creator and its current VIP are the caller, and its only game_players row
\* is the creator's, with score 0.
C21_CreatedGameState ==
    \A c \in InFlight :
        ReturnedGame(c) =>
            /\ \E g \in games :
                  /\ g.code = c.code
                  /\ g.status = "waiting"
                  /\ g.creator_id = c.userId
                  /\ g.current_vip_id = c.userId
            /\ GamePlayersOf(c.code)
                  = {[code |-> c.code, user_id |-> c.userId, score |-> 0]}

\* C21 witness: a createGame call has returned its game while another
\* createGame call is in flight.
C21_Witness ==
    \E c, d \in InFlight :
        ReturnedGame(c) /\ d.op = "createGame" /\ d.code # c.code

\* C22: once a createGame call has ended, no games row is left without its
\* creator's game_players row.
C22_NoGameWithoutCreatorRow ==
    \A g \in games :
        (\A c \in InFlight : ~(c.op = "createGame" /\ c.code = g.code))
            => \E m \in GamePlayersOf(g.code) : m.user_id = g.creator_id

\* C23: a createGame call whose generated code is the code of an existing
\* game goes on to create its game (with another code) instead of failing.
C23_CodeCollisionRetried ==
    \A c \in InFlight :
        (c.op = "createGame" /\ c.pc = "return" /\ c.collided)
            => c.result = "game"

\* C24: in every state the game has at most one round whose status is not
\* complete: a round is created only when there is no earlier round or the
\* earlier rounds are complete.
C24_OneOpenRound ==
    Cardinality({r \in DOMAIN rounds : rounds[r].status # "complete"}) <= 1

\* C25: in every state in which the game has a round row, the game's status
\* is playing or finished.
C25_RoundsOnlyWhenPlaying ==
    DOMAIN rounds # {} => game.status \in {"playing", "finished"}

\* C26: in every state a round that has ranking rows has the status
\* player_guessing, revealing or complete (one direction of the claim's "if
\* and only if").
C26_RankingRowsWithStatus ==
    \A r \in DOMAIN rounds :
        RoundRankings(r) # {}
            => rounds[r].status \in {"player_guessing", "revealing", "complete"}

\* C27: in no state is a round complete while the calculateScores run of the
\* revealNext call that completed it has not yet finished.
C27_CompleteMeansScored ==
    \A r \in DOMAIN rounds :
        rounds[r].status = "complete"
            => \A c \in InFlight : ~(c.op = "revealNext" /\ c.round = r)

\* C28: a revealNext call past the last item that returns true has completed
\* the round and has written the score of every player it computed a score
\* change for.
C28_SuccessMeansWritten ==
    [][\A c \in InFlight :
          (Completes(c) /\ RevealNextResult) =>
              /\ rounds[c.round].status = "complete"
              /\ \A u \in DOMAIN c.scoreUpdates : applied[<<c.round, u>>] >= 1]_vars

\* C29: calculateScores changes the score of no player who has no guess row
\* in the round it scores.
C29_NoGuessNoScoreChange ==
    [][\A u \in Users :
          ScoreOf(u)' # ScoreOf(u) =>
              \E c \in InFlight :
                  /\ c.op = "revealNext" /\ c.pc = "update" /\ c.userId = u
                  /\ UserGuesses(RoundGuesses(c.round), u) # {}]_vars

\* C29 witness: calculateScores has written the score of a player who guessed
\* in a round in which another player has no guess row; that player's score
\* is still 0.
C29_Witness ==
    \E c \in InFlight :
        /\ c.op = "revealNext" /\ c.pc = "check"
        /\ \E v \in Users : applied[<<c.round, v>>] = 1 /\ ScoreOf(v) # 0
        /\ \E u \in Users :
              UserGuesses(RoundGuesses(c.round), u) = {} /\ ScoreOf(u) = 0

\* C30: in every state no guess row of a round belongs to that round's VIP,
\* and every guess row belongs to a player of the game.
C30_NoGuessByVIP ==
    \A g \in guesses :
        g.user_id # rounds[g.round_id].vip_id /\ IsPlayer(g.user_id)

\* C31: a round that is created has as its vip_id the current_vip_id of the
\* game at that moment: only the game's current VIP creates a round.
C31_RoundVIPIsCurrentVIP ==
    [][\A r \in DOMAIN rounds' \ DOMAIN rounds :
          rounds'[r].vip_id = game.current_vip_id]_vars

\* C32: the end-to-end scenario.  In a game with target score 300, once the
\* VIP has ranked the items at positions 0..NItems-1, a player other than the
\* VIP has guessed exactly that ranking during player_guessing and the round
\* has been revealed to completion and scored, that player's score is
\* points_per_correct per item plus bonus_all_correct (500 for three items),
\* the game is finished and current_vip_id is still the round's VIP.
ItemPositions(rows) == {[item_id |-> x.item_id, position |-> x.position] : x \in rows}

ScenarioPlayed(p) ==
    /\ Idle
    /\ game.target_score = target_score
    /\ InStatus(1, "complete")
    /\ p # rounds[1].vip_id
    /\ RoundRankings(1) = RankingRows(1, Rows(IdentityRanking))
    /\ ItemPositions(UserGuesses(RoundGuesses(1), p)) = Rows(IdentityRanking)

C32_AllCorrectGuessFinishesGame ==
    \A p \in Users :
        ScenarioPlayed(p) =>
            /\ ScoreOf(p) = NItems * points_per_correct + bonus_all_correct
            /\ game.status = "finished"
            /\ game.current_vip_id = rounds[1].vip_id

\* C33: after startReveal, while the round is revealing its reveal_index is
\* between 1 and the item count N; a revealNext call of the VIP with the
\* current reveal_index below N adds one to it and keeps the round revealing;
\* the call with reveal_index = N sets complete and leaves reveal_index at N.
\* The round is therefore complete after exactly N calls.
RevealIndexInRange ==
    \A r \in DOMAIN rounds :
        /\ rounds[r].status = "revealing" => rounds[r].reveal_index \in 1..totalItems
        /\ rounds[r].status = "complete" => rounds[r].reveal_index = totalItems

VIPRevealNextSteps ==
    \A r \in DOMAIN rounds :
        LET i == rounds[r].reveal_index
            vip == rounds[r].vip_id
        IN  rounds[r].status = "revealing" =>
                /\ RevealNextAdvance(vip, r, i) =>
                       /\ i < totalItems
                       /\ rounds' = [rounds EXCEPT ![r].reveal_index = i + 1]
                /\ RevealNextComplete(vip, r, i) =>
                       /\ i = totalItems
                       /\ rounds' = [rounds EXCEPT ![r].status = "complete"]

C33_CompleteAfterNRevealCalls ==
    []RevealIndexInRange /\ [][VIPRevealNextSteps]_vars

\* C33 witness: a round completed by its VIP's single last revealNext call,
\* reveal_index at the item count.
C33_Witness ==
    \E r \in DOMAIN rounds :
        /\ rounds[r].status = "complete"
        /\ rounds[r].reveal_index = totalItems
        /\ scoreRuns[r] = 1

\* C34: startReveal by the round's VIP on a round in player_guessing sets the
\* status to revealing and reveal_index to 1 in one step; startReveal by
\* anyone changes no ranking, guess or score.
C34_StartRevealEffect ==
    [][\A actor \in Users : \A r \in DOMAIN rounds :
          (rounds[r].status = "player_guessing" /\ StartReveal(actor, r)) =>
              /\ actor = rounds[r].vip_id =>
                     rounds' = [rounds EXCEPT ![r] =
                                   [vip_id |-> rounds[r].vip_id,
                                    status |-> "revealing", reveal_index |-> 1]]
              /\ rankings' = rankings
              /\ guesses' = guesses
              /\ game_players' = game_players]_vars

\* C34 witness: a round with rankings and guesses that startReveal has just
\* put in revealing with reveal_index 1.
C34_Witness ==
    \E r \in DOMAIN rounds :
        /\ rounds[r].status = "revealing" /\ rounds[r].reveal_index = 1
        /\ RoundRankings(r) # {} /\ RoundGuesses(r) # {}

\* C35: once the game is finished no step creates a round, a ranking row or
\* a guess row.
C35_FinishedGameIsFrozen ==
    [][game.status = "finished" =>
          /\ DOMAIN rounds' \subseteq DOMAIN rounds
          /\ rankings' \subseteq rankings
          /\ guesses' \subseteq guesses]_vars

\* C36: while a round is in vip_ranking or player_guessing no player reads
\* any of its ranking rows, and in revealing or complete every player reads
\* all of them; a submitGuess call whose read happens in vip_ranking or
\* player_guessing finds no ranking (every guess row it builds is incorrect).
RankingsHiddenBeforeReveal ==
    \A r \in DOMAIN rounds : \A actor \in Users :
        VisibleRankings(actor, r) =
            IF rounds[r].status \in {"revealing", "complete"}
            THEN RoundRankings(r)
            ELSE {}

GuessReadFindsNoRanking ==
    \A c \in BagToSet(calls') :
        (/\ calls' = Begin(c)
         /\ c.op = "submitGuess"
         /\ rounds[c.round].status \in {"vip_ranking", "player_guessing"})
            => \A g \in c.rows : ~g.is_correct

C36_RankingsHiddenUntilReveal ==
    []RankingsHiddenBeforeReveal /\ [][GuessReadFindsNoRanking]_vars

\* C36 witness: a player_guessing round with its ranking stored and a
\* submitGuess call of a player who guessed that very ranking, every row of
\* the call marked incorrect.
C36_Witness ==
    \E c \in InFlight :
        /\ c.op = "submitGuess"
        /\ rounds[c.round].status = "player_guessing"
        /\ ItemPositions(c.rows) = ItemPositions(RoundRankings(c.round))
        /\ c.rows # {}
        /\ \A g \in c.rows : ~g.is_correct

\* C37: the game row changes only in a step that is an update issued by the
\* game's creator; startRound, the update of rotateVIP and the finishing
\* update of calculateScores issued by another user leave the row unchanged.
GameUpdateBy(actor) ==
    \/ StartRound(actor)
    \/ \E c \in InFlight :
          c.actor = actor /\ (RotateVIPUpdate(c) \/ CalculateScoresCheck(c))

C37_OnlyCreatorChangesGame ==
    [][/\ \A actor \in Users \ {Creator} : GameUpdateBy(actor) => game' = game
       /\ game' # game => GameUpdateBy(Creator)]_vars

\* C37 witness: a rotateVIP call of a user who is not the creator has issued
\* its update towards another VIP and returned true, the game's VIP unchanged.
C37_Witness ==
    \E c \in InFlight :
        /\ c.op = "rotateVIP" /\ c.pc = "return" /\ c.result
        /\ c.actor # Creator
        /\ c.nextVIP # c.current
        /\ game.current_vip_id = c.current

\* C38: rotateVIP with a players list that lacks the game's current VIP
\* chooses the first player of the list, and the creator's update sets
\* current_vip_id to it; with an empty list, or on a game without a VIP, the
\* call returns false and current_vip_id stays as it was.
NewCall == CHOOSE c \in BagToSet(calls') : calls' = Begin(c)

Lacks(players, userId) == \A i \in 1..Len(players) : players[i].user_id # userId

RotateVIPChoice ==
    \A actor \in Users : \A players \in PlayerLists :
        RotateVIP(actor, players) =>
            /\ game' = game
            /\ (players = <<>> \/ game.current_vip_id = NoVIP)
                   => (NewCall.pc = "return" /\ ~NewCall.result)
            /\ (/\ players # <<>>
                /\ game.current_vip_id # NoVIP
                /\ Lacks(players, game.current_vip_id))
                   => (NewCall.pc = "update" /\ NewCall.nextVIP = players[1].user_id)

RotateVIPOutcome ==
    \A c \in InFlight :
        /\ (RotateVIPUpdate(c) /\ c.actor = Creator)
               => game'.current_vip_id = c.nextVIP
        /\ (Return(c) /\ ~c.result) => game' = game

C38_RotateVIPOddLists ==
    [][RotateVIPChoice /\ RotateVIPOutcome]_vars

\* C38 witness: the creator's rotateVIP with a list of two players, neither
\* the current VIP, has returned true and the first of them is the VIP.
C38_Witness ==
    \E c \in InFlight :
        /\ c.op = "rotateVIP" /\ c.pc = "return" /\ c.result
        /\ c.actor = Creator
        /\ Len(c.players) >= 2
        /\ Lacks(c.players, c.current)
        /\ game.current_vip_id = c.players[1].user_id

\* C39: hasSubmitted is true for a user only if guess rows of that user
\* exist for the round.
C39_HasSubmittedMeansGuessRows ==
    \A u \in Users :
        hasSubmitted[u] => UserGuesses(RoundGuesses(1), u) # {}

\* C40: when every change of the rounds has been notified and every fetch
\* has returned, the client's currentRound is the stored round with the
\* greatest round_number.
FetchesReturned ==
    /\ notified = rounds
    /\ \A c \in InFlight : c.op # "fetchCurrentRound"

C40_CurrentRoundIsLatest ==
    FetchesReturned => currentRound = LatestRound

====
